---- MODULE Spec2Model ----
(***************************************************************************)
(* KateTextLayout (part/part/katetextlayout.cpp): one view line of a       *)
(* KateLineLayout.  The model holds one KateLineLayout (the owner) and one *)
(* KateTextLayout instance over it.  The owner's class is declared in      *)
(* katelinerange.h; its state and operations are modelled from the         *)
(* specification's section 4.1 and are prefixed LL_.                       *)
(***************************************************************************)
EXTENDS Integers, Sequences, FiniteSets

\* ---- bounds of the model ----
MaxRuns == 2
RunLen == 2
MaxWidth == 1
MaxShift == 1
MaxJunk == 1
LineNo == 1
VirtualLineNo == 0

VARIABLES
  lValid,        \* owner: KateLineLayout::isValid()
  runs,          \* owner: layout()'s lines, the natural width of each
  dirty,         \* owner: the per-run dirty bits
  shiftX,        \* owner: shiftX()
  m_lineLayout,  \* KateTextLayout::m_lineLayout: "null" or "L"
  m_viewLine,    \* KateTextLayout::m_viewLine
  m_startX,      \* KateTextLayout::m_startX (mutable cache, -1 = not computed)
  m_textLayout,  \* KateTextLayout::m_textLayout (QTextLine handle)
  ret            \* the last call that returned a value: its name, result,
                 \* and whether the instance was valid when it was made

vars == <<lValid, runs, dirty, shiftX, m_lineLayout, m_viewLine, m_startX,
          m_textLayout, ret>>

\* ---- value sets ----
\* the wrap decompositions: one to MaxRuns runs, every run RunLen columns long
RECURSIVE SeqsOfLen(_, _)
SeqsOfLen(S, n) ==
  IF n = 0 THEN {<<>>}
  ELSE {Append(s, x) : s \in SeqsOfLen(S, n - 1), x \in S}

Widths == 0..MaxWidth

Decomps == UNION {SeqsOfLen(Widths, n) : n \in 1..MaxRuns}

\* m_textLayout: assigned in the constructor (set), or left as constructed;
\* junk is what a read through a handle that was never assigned yields
Handles == [set : {TRUE}, junk : {0}] \cup [set : {FALSE}, junk : 0..MaxJunk]

MaxCol == MaxRuns * RunLen + 1

Cursors == [line : -1..(LineNo + 1), column : -1..MaxCol]

NoRet == [op |-> "none", val |-> 0, valid |-> FALSE]

\* ---- the owner, KateLineLayout ----
LL_isValid == lValid
LL_viewLineCount == Len(runs)
LL_shiftX == shiftX
LL_line == LineNo
LL_virtualLine == VirtualLineNo
LL_isDirty(i) == dirty[i + 1]
LL_setDirty(i, d) == [dirty EXCEPT ![i + 1] = d]

\* QTextLayout::lineAt(i), read by textStart(), textLength(), naturalTextWidth()
lineAt(i) == [from |-> i * RunLen, len |-> RunLen, width |-> runs[i + 1]]

\* ---- KateTextLayout ----
\* isValid() without the check of the owner's own validity
isValid_noOwnerCheck ==
  /\ m_lineLayout # "null"
  /\ m_viewLine >= 0
  /\ m_viewLine < LL_viewLineCount

\* isValid() with the last view line taken to be out of range
isValid_lastExcluded ==
  /\ m_lineLayout # "null"
  /\ LL_isValid
  /\ m_viewLine >= 0
  /\ m_viewLine < LL_viewLineCount - 1

isValid ==
  /\ m_lineLayout # "null"
  /\ LL_isValid
  /\ m_viewLine >= 0
  /\ m_viewLine < LL_viewLineCount

\* m_textLayout as read by textStart(), textLength(), naturalTextWidth():
\* a handle assigned in the constructor reads line m_viewLine of the owner's
\* layout; a handle never assigned reads whatever is there
lineLayout ==
  IF m_textLayout.set THEN lineAt(m_viewLine)
  ELSE [from |-> m_textLayout.junk, len |-> m_textLayout.junk, width |-> m_textLayout.junk]

line == IF ~isValid THEN -1 ELSE LL_line

virtualLine == IF ~isValid THEN -1 ELSE LL_virtualLine

viewLine == IF ~isValid THEN 0 ELSE m_viewLine

startCol == IF ~isValid THEN 0 ELSE lineLayout.from

length == IF ~isValid THEN 0 ELSE lineLayout.len

endCol == IF ~isValid THEN 0 ELSE startCol + lineLayout.len

isEmpty == IF ~isValid THEN TRUE ELSE startCol = 0 /\ endCol = 0

wrap == IF ~isValid THEN FALSE ELSE viewLine < LL_viewLineCount - 1

width == IF ~isValid THEN 0 ELSE lineLayout.width

\* the loop of startX(): m_startX += lineAt(i).naturalTextWidth(), i < viewLine()
RECURSIVE AddWidths(_, _)
AddWidths(acc, k) ==
  IF k = 0 THEN acc ELSE AddWidths(acc, k - 1) + lineAt(k - 1).width

\* m_startX after a call of startX()
startXCache ==
  IF ~isValid THEN m_startX
  ELSE IF m_startX = -1 THEN AddWidths(m_startX, viewLine)
  ELSE m_startX

\* the value startX() returns
startX == IF ~isValid THEN 0 ELSE startXCache

endX == IF ~isValid THEN 0 ELSE m_startX + lineLayout.width

xOffset == IF ~isValid THEN 0 ELSE IF startX # 0 THEN LL_shiftX ELSE 0

\* includesCursor() with the end column of a wrapping run included
includesCursor_inclusiveEnd(c) ==
  /\ c.line = line
  /\ c.column >= startCol
  /\ (~wrap \/ c.column <= endCol)

includesCursor(c) ==
  /\ c.line = line
  /\ c.column >= startCol
  /\ (~wrap \/ c.column < endCol)

OpGt(c) == line > c.line \/ endCol > c.column

OpGe(c) == line > c.line \/ endCol >= c.column

OpLt(c) == line < c.line \/ startCol < c.column

OpLe(c) == line < c.line \/ startCol <= c.column

isDirty == IF ~isValid THEN TRUE ELSE LL_isDirty(viewLine)

\* setDirty(d) returning the new value of the bit
setDirtyRet_newValue(d) == IF ~isValid THEN TRUE ELSE d

\* the value setDirty(d) returns, and the owner's dirty bits after it
setDirtyRet(d) == IF ~isValid THEN TRUE ELSE LL_isDirty(viewLine)

setDirtyBits(d) == IF ~isValid THEN dirty ELSE LL_setDirty(viewLine, d)

\* ---- initial states ----
TypeOK ==
  /\ lValid \in BOOLEAN
  /\ runs \in Decomps
  /\ dirty \in [1..Len(runs) -> BOOLEAN]
  /\ shiftX \in 0..MaxShift
  /\ m_lineLayout \in {"null", "L"}
  /\ m_viewLine \in -1..MaxRuns
  /\ m_textLayout \in Handles

\* the owner in any state; the instance is KateTextLayout::invalid()
Init ==
  /\ lValid \in BOOLEAN
  /\ runs \in Decomps
  /\ dirty \in [1..Len(runs) -> BOOLEAN]
  /\ shiftX \in 0..MaxShift
  /\ m_lineLayout = "null"
  /\ m_viewLine = 0
  /\ m_startX = 0
  /\ m_textLayout \in [set : {FALSE}, junk : 0..MaxJunk]
  /\ ret = NoRet

\* ---- actions on the instance ----
ownerVars == <<lValid, runs, dirty, shiftX>>
instVars == <<m_lineLayout, m_viewLine, m_startX, m_textLayout>>

\* KateTextLayout(line, viewLine)
Construct(o, v) ==
  /\ UNCHANGED ownerVars
  /\ m_lineLayout' = o
  /\ m_viewLine' = v
  /\ m_startX' = IF v # 0 THEN -1 ELSE 0
  /\ IF isValid'
     THEN m_textLayout' = [set |-> TRUE, junk |-> 0]
     ELSE m_textLayout' \in [set : {FALSE}, junk : 0..MaxJunk]
  /\ ret' = NoRet

StartX ==
  /\ m_startX' = startXCache
  /\ ret' = [op |-> "startX", val |-> startX, valid |-> isValid]
  /\ UNCHANGED <<ownerVars, m_lineLayout, m_viewLine, m_textLayout>>

\* xOffset() calls startX(), which fills the cache
XOffset ==
  /\ m_startX' = startXCache
  /\ UNCHANGED <<ownerVars, m_lineLayout, m_viewLine, m_textLayout, ret>>

SetDirty(d) ==
  /\ dirty' = setDirtyBits(d)
  /\ ret' = [op |-> "setDirty", val |-> setDirtyRet(d), valid |-> isValid]
  /\ UNCHANGED <<lValid, runs, shiftX, instVars>>

\* ---- actions on the owner (the layout cache and the wrapping engine) ----
\* the wrap decomposition is recomputed: a run is added, dropped or reshaped
\* (successive recomputes reach every decomposition) and every run is dirty
Neighbours(rs) ==
  {Append(rs, w) : w \in IF Len(rs) < MaxRuns THEN Widths ELSE {}}
    \cup (IF Len(rs) > 1 THEN {SubSeq(rs, 1, Len(rs) - 1)} ELSE {})
    \cup {[rs EXCEPT ![i] = w] : i \in 1..Len(rs), w \in Widths}

Relayout ==
  /\ \E rs \in Neighbours(runs) \ {runs} :
       /\ runs' = rs
       /\ dirty' = [i \in 1..Len(rs) |-> TRUE]
  /\ UNCHANGED <<lValid, shiftX, instVars, ret>>

SetShiftX ==
  /\ \E s \in (0..MaxShift) \ {shiftX} : shiftX' = s
  /\ UNCHANGED <<lValid, runs, dirty, instVars, ret>>

\* the line is removed from the document, or is realized
SetLineValid ==
  /\ lValid' = ~lValid
  /\ UNCHANGED <<runs, dirty, shiftX, instVars, ret>>

Next ==
  \/ \E o \in {"null", "L"}, v \in -1..MaxRuns : Construct(o, v)
  \/ StartX
  \/ XOffset
  \/ \E d \in BOOLEAN : SetDirty(d)
  \/ Relayout
  \/ SetShiftX
  \/ SetLineValid

Spec == Init /\ [][Next]_vars

\* ---- the claims ----
\* the natural widths of runs 0..k-1 of the owning line, summed
RECURSIVE SumWidths(_)
SumWidths(k) == IF k = 0 THEN 0 ELSE SumWidths(k - 1) + runs[k]

InRange == m_lineLayout # "null" /\ lValid /\ m_viewLine \in 0..(Len(runs) - 1)

\* C1: on a valid layout startX() is 0 for view line 0 and, for view line
\* k > 0, the sum of the natural widths of runs 0..k-1 plus the owner's shiftX()
C1_StartXSum ==
  isValid =>
    startX = IF m_viewLine = 0 THEN 0 ELSE SumWidths(m_viewLine) + shiftX

\* C2: on a valid layout endX() is startX() plus the natural width of the
\* run, in every state of the instance (before and after the first startX())
C2_EndX == isValid => endX = startX + lineLayout.width

\* C3 as stated: a cursor is included iff it is on the layout's line and its
\* column is in [startCol, endCol) on a wrapping run, in [startCol, endCol]
\* on the last run; no column beyond endCol is included
C3_Original ==
  isValid =>
    \A c \in Cursors :
      includesCursor(c) <=>
        /\ c.line = LineNo
        /\ c.column >= lineLayout.from
        /\ IF m_viewLine < Len(runs) - 1
           THEN c.column < lineLayout.from + lineLayout.len
           ELSE c.column <= lineLayout.from + lineLayout.len

\* C3 amended: a cursor is included iff it is on the layout's line and its
\* column is in [startCol, endCol) on a wrapping run, or is any column from
\* startCol on (also beyond endCol) on the last run of the line
C3_Amended ==
  isValid =>
    \A c \in Cursors :
      includesCursor(c) <=>
        /\ c.line = LineNo
        /\ c.column >= lineLayout.from
        /\ (m_viewLine < Len(runs) - 1 => c.column < lineLayout.from + lineLayout.len)

\* a last run that includes a cursor beyond its end column
C3_Witness ==
  /\ isValid
  /\ m_textLayout.set
  /\ Len(runs) > 1
  /\ m_viewLine = Len(runs) - 1
  /\ includesCursor([line |-> LineNo, column |-> endCol + 1])
  /\ ~includesCursor([line |-> LineNo, column |-> startCol - 1])

\* (l1, c1) before (l2, c2) in the lexicographic order on (line, column)
LexLess(l1, c1, l2, c2) == l1 < l2 \/ (l1 = l2 /\ c1 < c2)

LexLeq(l1, c1, l2, c2) == l1 < l2 \/ (l1 = l2 /\ c1 <= c2)

\* C4: r < c and r <= c compare (line, startCol) with the cursor, r > c and
\* r >= c compare (line, endCol) with it, lexicographically (stated for a
\* valid layout r)
C4_Lexicographic ==
  isValid =>
    \A c \in Cursors :
      /\ OpLt(c) <=> LexLess(line, startCol, c.line, c.column)
      /\ OpLe(c) <=> LexLeq(line, startCol, c.line, c.column)
      /\ OpGt(c) <=> LexLess(c.line, c.column, line, endCol)
      /\ OpGe(c) <=> LexLeq(c.line, c.column, line, endCol)

\* C5: every query of an invalid layout returns its neutral default, and no
\* cursor is included
C5_InvalidNeutral ==
  ~InRange =>
    /\ line = -1 /\ virtualLine = -1
    /\ viewLine = 0 /\ startCol = 0 /\ endCol = 0 /\ length = 0
    /\ startX = 0 /\ endX = 0 /\ width = 0 /\ xOffset = 0
    /\ ~wrap
    /\ \A c \in Cursors : ~includesCursor(c)

\* C6: isValid() holds iff the owner reference is non-null, the owner is
\* valid and 0 <= view-line index < owner.viewLineCount(), in every state
\* (so also right after construction)
C6_IsValid == isValid <=> InRange

\* a layout just constructed from a valid owner with an in-range index
C6_Witness ==
  /\ ret = NoRet
  /\ m_lineLayout = "L"
  /\ m_viewLine = Len(runs) - 1
  /\ m_viewLine > 0
  /\ m_textLayout.set
  /\ isValid

\* C7: on a valid layout xOffset() is shiftX() if startX() # 0 and 0
\* otherwise; so it is shiftX() on every continuation run whose earlier runs
\* have positive total natural width, and 0 on the first run
C7_XOffset ==
  isValid =>
    /\ xOffset = IF startX # 0 THEN shiftX ELSE 0
    /\ (m_viewLine > 0 /\ SumWidths(m_viewLine) > 0 => xOffset = shiftX)
    /\ (m_viewLine = 0 => xOffset = 0)

\* C8: a second startX() on the same instance, valid at both calls, returns
\* what the first returned, whatever the owner did in between
C8_StartXStable ==
  [][(ret.op = "startX" /\ ret.valid /\ isValid /\ StartX) => ret'.val = ret.val]_vars

\* C9: on a valid layout setDirty(d) returns the run's dirty bit from before
\* the call and isDirty() is d after it; on an invalid layout setDirty(d)
\* changes no dirty bit and setDirty and isDirty report true
C9_Dirty ==
  [][\A d \in BOOLEAN :
       SetDirty(d) =>
         IF InRange
         THEN /\ ret'.val = dirty[m_viewLine + 1]
              /\ dirty' = [dirty EXCEPT ![m_viewLine + 1] = d]
              /\ isDirty' = d
         ELSE /\ dirty' = dirty
              /\ ret'.val = TRUE
              /\ isDirty /\ isDirty']_vars

\* setDirty(d) on a valid layout returned a prior value other than d
C9_Witness ==
  /\ ret.op = "setDirty"
  /\ ret.valid
  /\ isValid
  /\ m_viewLine > 0
  /\ ret.val # isDirty

\* C10: on a valid layout wrap() holds iff the run is not the last of its
\* line and endCol() = startCol() + length(); on the only run of a
\* single-run line wrap() is false, startCol() is 0 and endCol() = length()
C10_WrapCols ==
  isValid =>
    /\ wrap <=> m_viewLine < Len(runs) - 1
    /\ endCol = startCol + length
    /\ (Len(runs) = 1 => ~wrap /\ startCol = 0 /\ endCol = length)

\* C11 as stated: after every recompute of the owner's wrap decomposition an
\* instance constructed before it reports isValid() false, also when its
\* view-line index is still within the new run count
C11_Original == [][(isValid /\ Relayout) => ~isValid']_vars

\* C11 amended: after a recompute an instance that was valid before it
\* reports isValid() false only if its view-line index is no longer within
\* the new run count; a recompute that keeps the index in range leaves
\* isValid() true
C11_Amended ==
  [][(isValid /\ Relayout) => (isValid' <=> m_viewLine < Len(runs'))]_vars

\* a valid instance whose cached start x was computed from widths the owner
\* has since recomputed
C11_Witness ==
  /\ isValid
  /\ m_textLayout.set
  /\ m_viewLine > 0
  /\ m_startX # -1
  /\ m_startX # AddWidths(-1, m_viewLine)

\* C12: whenever isValid() is true the handle m_textLayout was assigned in
\* the constructor and reads the owner's current run at index m_viewLine; an
\* instance that was invalid at construction never reports isValid() later
C12_HandleCurrent ==
  isValid => (m_textLayout.set /\ lineLayout = lineAt(m_viewLine))

====
